---- MODULE Spec2Model ----
(***************************************************************************)
(* Model of src/main.py: VK.get_photos, YandexDisk.get_upload_link,        *)
(* YandexDisk.upload_file and PhotoBackup.run with its helpers.            *)
(* The program is sequential; pc is the position inside run().  The two    *)
(* remote services and the local filesystem are the environment: every     *)
(* request has a nondeterministic outcome (transport error, HTTP status,   *)
(* payload).                                                               *)
(***************************************************************************)
EXTENDS Integers, Sequences, FiniteSets, TLC

VARIABLES pc, error, vk_response, photos, top_photos, idx, photos_info,
          max_size, file_name, content, href, file_pos,
          local_files, remote, downloads, link_requests, transfers,
          manifest_exists, manifest_json

vars == <<pc, error, vk_response, photos, top_photos, idx, photos_info,
          max_size, file_name, content, href, file_pos,
          local_files, remote, downloads, link_requests, transfers,
          manifest_exists, manifest_json>>

(* ------------------------------ bounds --------------------------------- *)

\* longest photo list the photo service returns (drawn from PhotoPool)
MaxPhotos == 6
\* most size variants of one photo in the single-photo answers
MaxVariants == 3
\* largest width / height of a size variant in the single-photo answers
MaxDim == 2

(* --------------------------- program constants ------------------------- *)

\* photos_with_sizes[:5]
TopCount == 5
\* download_and_upload_photos(self, photos, count=5)
DefaultCount == 5

SecondsPerDay == 86400

(* ------------------------------ helpers -------------------------------- *)

Range(s) == {s[i] : i \in DOMAIN s}

\* Python slice s[:n]
Take(s, n) == SubSeq(s, 1, IF Len(s) < n THEN Len(s) ELSE n)

SeqsUpTo(S, n) == UNION {[1..k -> S] : k \in 0..n}

\* size-class labels of the photo service, in variant order
TypeLabels == <<"s", "m", "x", "o", "p", "q", "r", "y", "z", "w">>

NoVariant == [width |-> 0, height |-> 0, type |-> "", url |-> 0]
NoError == [at |-> "", exc |-> ""]
\* Python None returned by .get('href')
NoHref == <<>>
NoResponse == [net |-> "", status |-> 0, body |-> "", items |-> <<>>]

(* --------------------------- the environment --------------------------- *)

\* three photos: P1 has a tie between its "m" and "x" variants (area 2);
\* P1 and P2 have the same like count and the same UTC day (different
\* seconds); P3 ties with P1 on maximal area.
P1 == [sizes |-> << [width |-> 1, height |-> 1, type |-> "s", url |-> 11],
                    [width |-> 2, height |-> 1, type |-> "m", url |-> 12],
                    [width |-> 1, height |-> 2, type |-> "x", url |-> 13] >>,
       likes |-> 42, date |-> 1626343200]
P2 == [sizes |-> << [width |-> 2, height |-> 2, type |-> "x", url |-> 21] >>,
       likes |-> 42, date |-> 1626307200]
P3 == [sizes |-> << [width |-> 1, height |-> 2, type |-> "m", url |-> 31] >>,
       likes |-> 7, date |-> 1626393600]

PhotoPool == {P1, P2, P3}

\* answers of several photos
PhotoLists == SeqsUpTo(PhotoPool, MaxPhotos)

\* answers of one photo with every combination of variant dimensions
Dims == (1..MaxDim) \X (1..MaxDim)
VariantLists == UNION {[1..k -> Dims] : k \in 1..MaxVariants}
SinglePhotos ==
  { [sizes |-> [i \in DOMAIN d |-> [width |-> d[i][1], height |-> d[i][2],
                                    type |-> TypeLabels[i], url |-> 50 + i]],
     likes |-> 3, date |-> 0] : d \in VariantLists }

\* bytes served at a photo URL
Content(u) == <<u, u + 100>>

StatusCodes == {200, 404, 500}

(* --------------------------- pure functions ---------------------------- *)

\* response.raise_for_status(): raises HTTPError for 4xx and 5xx
raise_for_status(status) == status >= 400

\* x['width'] * x['height']
Area(v) == v.width * v.height

\* variant of get_max_size_photo that keeps the last maximal element
RECURSIVE PyMaxLast(_, _, _)
PyMaxLast(sizes, i, best) ==
  IF i > Len(sizes) THEN best
  ELSE IF Area(sizes[i]) >= Area(best) THEN PyMaxLast(sizes, i + 1, sizes[i])
  ELSE PyMaxLast(sizes, i + 1, best)

get_max_size_photo_last(photo) == PyMaxLast(photo.sizes, 2, photo.sizes[1])

\* Python max(seq, key=...): the first element whose key is maximal
RECURSIVE PyMax(_, _, _)
PyMax(sizes, i, best) ==
  IF i > Len(sizes) THEN best
  ELSE IF Area(sizes[i]) > Area(best) THEN PyMax(sizes, i + 1, sizes[i])
  ELSE PyMax(sizes, i + 1, best)

get_max_size_photo(photo) == PyMax(photo.sizes, 2, photo.sizes[1])

\* stable insertion of x into a list sorted by descending key
RECURSIVE InsertDesc(_, _)
InsertDesc(sorted, x) ==
  IF sorted = <<>> THEN <<x>>
  ELSE IF Head(sorted)[2] >= x[2] THEN <<Head(sorted)>> \o InsertDesc(Tail(sorted), x)
  ELSE <<x>> \o sorted

\* variant of the sort without reverse=True: stable, ascending
RECURSIVE InsertAsc(_, _)
InsertAsc(sorted, x) ==
  IF sorted = <<>> THEN <<x>>
  ELSE IF Head(sorted)[2] <= x[2] THEN <<Head(sorted)>> \o InsertAsc(Tail(sorted), x)
  ELSE <<x>> \o sorted

RECURSIVE SortAsc(_)
SortAsc(pairs) ==
  IF pairs = <<>> THEN <<>>
  ELSE InsertAsc(SortAsc(SubSeq(pairs, 1, Len(pairs) - 1)), pairs[Len(pairs)])

\* list.sort(key=lambda x: x[1], reverse=True): stable, descending
RECURSIVE SortDesc(_)
SortDesc(pairs) ==
  IF pairs = <<>> THEN <<>>
  ELSE InsertDesc(SortDesc(SubSeq(pairs, 1, Len(pairs) - 1)), pairs[Len(pairs)])

\* lines 142-148 of run(): rank by maximal area, keep the first five
select_top(ps) ==
  LET photos_with_sizes ==
        [i \in DOMAIN ps |-> <<ps[i], Area(get_max_size_photo(ps[i]))>>]
      ranked == Take(SortDesc(photos_with_sizes), TopCount)
  IN [i \in DOMAIN ranked |-> ranked[i][1]]

\* datetime.fromtimestamp(ts, timezone.utc) -> <<year, month, day>>
utc_date(ts) ==
  LET z == (ts \div SecondsPerDay) + 719468
      era == z \div 146097
      doe == z - era * 146097
      yoe == (doe - (doe \div 1460) + (doe \div 36524) - (doe \div 146096)) \div 365
      doy == doe - (365 * yoe + (yoe \div 4) - (yoe \div 100))
      mp == (5 * doy + 2) \div 153
      d == doy - ((153 * mp + 2) \div 5) + 1
      m == IF mp < 10 THEN mp + 3 ELSE mp - 9
      y == yoe + era * 400 + (IF m <= 2 THEN 1 ELSE 0)
  IN <<y, m, d>>

\* f'{likes}_{date}.jpg' with date = strftime('%Y-%m-%d'); the name is kept
\* as its fields <<likes, year, month, day>>
make_file_name(photo) == <<photo.likes>> \o utc_date(photo.date)

\* f'vk_photos/{file_name}'
remote_path(name) == <<"vk_photos">> \o name

\* {'file_name': file_name, 'size': max_size['type']}
manifest_entry(name, variant) == [file_name |-> name, size |-> variant.type]

\* variant of list.append that inserts at the front
list_prepend(l, x) == <<x>> \o l

\* list.append(x)
list_append(l, x) == Append(l, x)

\* file.read() on an open handle: the bytes from the current position on
file_read(bytes, pos) == SubSeq(bytes, pos + 1, Len(bytes))

(* ----------------------- the clients' functions ------------------------ *)

\* what a remote call can come back with: no answer at all, or a status
HttpOutcomes ==
  {[net |-> "error", status |-> 0]} \cup {[net |-> "ok", status |-> c] : c \in StatusCodes}

\* shapes of the photo service's payload
VkBodies == {"not_json", "not_object", "no_response", "response_not_object",
             "no_items", "items_null"}

VkResponses ==
  {[net |-> o.net, status |-> o.status, body |-> "", items |-> <<>>] :
      o \in {x \in HttpOutcomes : x.net = "error" \/ x.status >= 400}}
  \cup {[net |-> "ok", status |-> 200, body |-> b, items |-> <<>>] : b \in VkBodies}
  \cup {[net |-> "ok", status |-> 200, body |-> "items", items |-> l] : l \in PhotoLists}
  \cup {[net |-> "ok", status |-> 200, body |-> "items", items |-> <<p>>] : p \in SinglePhotos}

\* variant of get_photos with .get('items') instead of .get('items', [])
get_photos_no_default(resp) ==
  LET raise(e) == [exc |-> e, is_none |-> FALSE, items |-> <<>>]
      return(n, l) == [exc |-> "", is_none |-> n, items |-> l]
  IN IF resp.net = "error" THEN raise("ConnectionError")
     ELSE IF raise_for_status(resp.status) THEN raise("HTTPError")
     ELSE IF resp.body = "not_json" THEN raise("JSONDecodeError")
     ELSE IF resp.body = "not_object" THEN raise("AttributeError")
     ELSE IF resp.body = "no_response" THEN return(TRUE, <<>>)
     ELSE IF resp.body = "response_not_object" THEN raise("AttributeError")
     ELSE IF resp.body = "no_items" THEN return(TRUE, <<>>)
     ELSE IF resp.body = "items_null" THEN return(TRUE, <<>>)
     ELSE return(FALSE, resp.items)

\* VK.get_photos: exc is the exception raised ("" when it returns),
\* is_none tells a returned None from a returned list
get_photos(resp) ==
  LET raise(e) == [exc |-> e, is_none |-> FALSE, items |-> <<>>]
      return(n, l) == [exc |-> "", is_none |-> n, items |-> l]
  IN IF resp.net = "error" THEN raise("ConnectionError")
     ELSE IF raise_for_status(resp.status) THEN raise("HTTPError")
     ELSE IF resp.body = "not_json" THEN raise("JSONDecodeError")
     ELSE IF resp.body = "not_object" THEN raise("AttributeError")
     ELSE IF resp.body = "no_response" THEN return(FALSE, <<>>)
     ELSE IF resp.body = "response_not_object" THEN raise("AttributeError")
     ELSE IF resp.body = "no_items" THEN return(FALSE, <<>>)
     ELSE IF resp.body = "items_null" THEN return(TRUE, <<>>)
     ELSE return(FALSE, resp.items)

LinkResponses ==
  {[net |-> o.net, status |-> o.status, body |-> ""] :
      o \in {x \in HttpOutcomes : x.net = "error" \/ x.status >= 400}}
  \cup {[net |-> "ok", status |-> 200, body |-> b] : b \in {"href", "no_href"}}

\* variant of get_upload_link that makes up a reference when none came back
get_upload_link_fallback(resp, path, n) ==
  IF resp.net = "error" THEN [exc |-> "ConnectionError", href |-> NoHref]
  ELSE IF raise_for_status(resp.status) THEN [exc |-> "HTTPError", href |-> NoHref]
  ELSE [exc |-> "", href |-> <<path, n>>]

\* YandexDisk.get_upload_link: n numbers the references the service issues
get_upload_link(resp, path, n) ==
  IF resp.net = "error" THEN [exc |-> "ConnectionError", href |-> NoHref]
  ELSE IF raise_for_status(resp.status) THEN [exc |-> "HTTPError", href |-> NoHref]
  ELSE IF resp.body = "href" THEN [exc |-> "", href |-> <<path, n>>]
  ELSE [exc |-> "", href |-> NoHref]

\* requests.put(None, ...): preparing the request raises MissingSchema
\* before anything is read or sent
missing_schema(h) == h = NoHref

(* ------------------------------ the run -------------------------------- *)

Init ==
  /\ pc = "start"
  /\ error = NoError
  /\ vk_response = NoResponse
  /\ photos = [is_none |-> FALSE, items |-> <<>>]
  /\ top_photos = <<>>
  /\ idx = 0
  /\ photos_info = <<>>
  /\ max_size = NoVariant
  /\ file_name = <<>>
  /\ content = <<>>
  /\ href = NoHref
  /\ file_pos = 0
  /\ local_files = <<>>
  /\ remote = <<>>
  /\ downloads = <<>>
  /\ link_requests = <<>>
  /\ transfers = <<>>
  /\ manifest_exists = FALSE
  /\ manifest_json = <<>>

\* variant of Abort that still writes the entries collected so far
Abort_saving(exc) ==
  /\ pc' = "failed"
  /\ error' = [at |-> pc, exc |-> exc]
  /\ manifest_exists' = TRUE
  /\ manifest_json' = photos_info

\* an exception leaves run(): nothing catches it, save_photos_info is skipped
Abort(exc) ==
  /\ pc' = "failed"
  /\ error' = [at |-> pc, exc |-> exc]
  /\ UNCHANGED <<manifest_exists, manifest_json>>

\* normal step to the next position
Goto(next) ==
  /\ pc' = next
  /\ UNCHANGED <<error, manifest_exists, manifest_json>>

\* line 139: photos = self.vk.get_photos(user_id)
run_get_photos ==
  /\ pc = "start"
  /\ \E resp \in VkResponses :
       LET r == get_photos(resp)
       IN /\ vk_response' = resp
          /\ IF r.exc # ""
             THEN Abort(r.exc) /\ UNCHANGED photos
             ELSE Goto("rank") /\ photos' = [is_none |-> r.is_none, items |-> r.items]
  /\ UNCHANGED <<top_photos, idx, photos_info, max_size, file_name, content, href,
                 file_pos, local_files, remote, downloads, link_requests, transfers>>

\* lines 142-148 and 107: rank, select, enter download_and_upload_photos
run_select ==
  /\ pc = "rank"
  /\ IF photos.is_none
     THEN Abort("TypeError") /\ UNCHANGED <<top_photos, idx, photos_info>>
     ELSE /\ Goto("loop")
          /\ top_photos' = select_top(photos.items)
          /\ idx' = 0
          /\ photos_info' = <<>>
  /\ UNCHANGED <<vk_response, photos, max_size, file_name, content, href,
                 file_pos, local_files, remote, downloads, link_requests, transfers>>

\* lines 108-113: next photo of photos[:count], or line 121 return
loop_next ==
  /\ pc = "loop"
  /\ LET sel == Take(top_photos, DefaultCount)
     IN IF idx < Len(sel)
        THEN /\ Goto("download")
             /\ max_size' = get_max_size_photo(sel[idx + 1])
             /\ file_name' = make_file_name(sel[idx + 1])
        ELSE Goto("save") /\ UNCHANGED <<max_size, file_name>>
  /\ UNCHANGED <<vk_response, photos, top_photos, idx, photos_info, content, href,
                 file_pos, local_files, remote, downloads, link_requests, transfers>>

\* lines 114-115: response = requests.get(url); response.raise_for_status()
download_photo ==
  /\ pc = "download"
  /\ downloads' = Append(downloads, max_size.url)
  /\ \E o \in HttpOutcomes :
       IF o.net = "error" THEN Abort("ConnectionError") /\ UNCHANGED content
       ELSE IF raise_for_status(o.status) THEN Abort("HTTPError") /\ UNCHANGED content
       ELSE Goto("write") /\ content' = Content(max_size.url)
  /\ UNCHANGED <<vk_response, photos, top_photos, idx, photos_info, max_size, file_name,
                 href, file_pos, local_files, remote, link_requests, transfers>>

\* lines 116-117: with open(file_name, 'wb') as file: file.write(...)
write_temp ==
  /\ pc = "write"
  /\ \E opened \in BOOLEAN :
       IF opened
       THEN Goto("link") /\ local_files' = (file_name :> content) @@ local_files
       ELSE Abort("OSError") /\ UNCHANGED local_files
  /\ UNCHANGED <<vk_response, photos, top_photos, idx, photos_info, max_size, file_name,
                 content, href, file_pos, remote, downloads, link_requests, transfers>>

\* line 71: href = self.get_upload_link(f'vk_photos/{file_name}')
request_upload_link ==
  /\ pc = "link"
  /\ \E resp \in LinkResponses :
       LET path == remote_path(file_name)
           r == get_upload_link(resp, path, Len(link_requests) + 1)
       IN /\ link_requests' = Append(link_requests, [path |-> path, resp |-> resp])
          /\ IF r.exc # ""
             THEN Abort(r.exc) /\ UNCHANGED href
             ELSE Goto("put1") /\ href' = r.href
  /\ UNCHANGED <<vk_response, photos, top_photos, idx, photos_info, max_size, file_name,
                 content, file_pos, local_files, remote, downloads, transfers>>

\* one requests.put(href, files={'file': file}) on the open handle, which
\* is at position pos: the body is what is left to read; a success status
\* stores it at the path
send_put(o, checked, pos) ==
  LET body == file_read(local_files[file_name], pos)
  IN /\ file_pos' = Len(local_files[file_name])
     /\ transfers' = Append(transfers, [href |-> href, body |-> body,
                                         checked |-> checked])
     /\ remote' = IF o.net = "ok" /\ ~raise_for_status(o.status)
                   THEN (href[1] :> body) @@ remote
                   ELSE remote

\* lines 72-73: open(file_path, 'rb') gives a handle at position 0, then
\* the first put, status ignored
transfer_unchecked ==
  /\ pc = "put1"
  /\ IF missing_schema(href)
     THEN Abort("MissingSchema") /\ UNCHANGED <<file_pos, transfers, remote>>
     ELSE \E o \in HttpOutcomes :
            /\ send_put(o, FALSE, 0)
            /\ IF o.net = "error" THEN Abort("ConnectionError") ELSE Goto("put2")
  /\ UNCHANGED <<vk_response, photos, top_photos, idx, photos_info, max_size, file_name,
                 content, href, local_files, downloads, link_requests>>

\* line 74: the second put on the same handle and href, status checked
transfer_checked ==
  /\ pc = "put2"
  /\ \E o \in HttpOutcomes :
       /\ send_put(o, TRUE, file_pos)
       /\ IF o.net = "error" THEN Abort("ConnectionError")
          ELSE IF raise_for_status(o.status) THEN Abort("HTTPError")
          ELSE Goto("append")
  /\ UNCHANGED <<vk_response, photos, top_photos, idx, photos_info, max_size, file_name,
                 content, href, local_files, downloads, link_requests>>

\* line 119: photos_info.append(...)
append_entry ==
  /\ pc = "append"
  /\ Goto("remove")
  /\ photos_info' = list_append(photos_info, manifest_entry(file_name, max_size))
  /\ UNCHANGED <<vk_response, photos, top_photos, idx, max_size, file_name, content, href,
                 file_pos, local_files, remote, downloads, link_requests, transfers>>

\* line 120: os.remove(file_name), end of the loop body
remove_temp ==
  /\ pc = "remove"
  /\ Goto("loop")
  /\ local_files' = [n \in DOMAIN local_files \ {file_name} |-> local_files[n]]
  /\ idx' = idx + 1
  /\ UNCHANGED <<vk_response, photos, top_photos, photos_info, max_size, file_name, content,
                 href, file_pos, remote, downloads, link_requests, transfers>>

\* lines 151, 130-131: open(file_name, 'w') and json.dump
save_photos_info ==
  /\ pc = "save"
  /\ \E opened \in BOOLEAN :
       IF opened
       THEN /\ pc' = "done"
            /\ manifest_exists' = TRUE
            /\ manifest_json' = photos_info
            /\ UNCHANGED error
       ELSE Abort("OSError")
  /\ UNCHANGED <<vk_response, photos, top_photos, idx, photos_info, max_size, file_name,
                 content, href, file_pos, local_files, remote, downloads, link_requests,
                 transfers>>

Next ==
  \/ run_get_photos
  \/ run_select
  \/ loop_next
  \/ download_photo
  \/ write_temp
  \/ request_upload_link
  \/ transfer_unchecked
  \/ transfer_checked
  \/ append_entry
  \/ remove_temp
  \/ save_photos_info

Spec == Init /\ [][Next]_vars

(* ------------------------------ properties ---------------------------- *)

\* the photos download_and_upload_photos iterates over, in rank order
Selected == Take(top_photos, DefaultCount)
K == Len(Selected)

InLoopBody == pc \in {"download", "write", "link", "put1", "put2", "append", "remove"}

\* largest width*height among the variants of a photo
MaxArea(p) ==
  CHOOSE a \in {Area(v) : v \in Range(p.sizes)} :
    \A v \in Range(p.sizes) : Area(v) <= a

Occurrences(s, x) == Cardinality({i \in DOMAIN s : s[i] = x})

\* number of transfers sent to the n-th reference issued, by kind of call
TransfersTo(n, checked) ==
  Cardinality({i \in DOMAIN transfers :
                 transfers[i].href[2] = n /\ transfers[i].checked = checked})

\* C2: in an error-free run over K selected photos there are exactly K
\* destination requests, for vk_photos/{fileName}, and exactly K transfers,
\* one checked transfer per reference, no reference used twice.
C2_OneTransferPerReference ==
  pc = "done" =>
    /\ Len(link_requests) = K
    /\ Len(transfers) = K
    /\ \A i \in 1..K :
         /\ link_requests[i].path = remote_path(make_file_name(Selected[i]))
         /\ transfers[i].href = <<link_requests[i].path, i>>
         /\ transfers[i].checked
    /\ \A i, j \in 1..K : i # j => transfers[i].href # transfers[j].href

\* C3: when upload_file has returned without error, the remote object at
\* vk_photos/{name} holds exactly the bytes of the local file.
C3_RemoteHoldsPayload ==
  pc = "append" =>
    /\ remote_path(file_name) \in DOMAIN remote
    /\ remote[remote_path(file_name)] = local_files[file_name]

\* C5: when run() has terminated, on any exit path, no temporary photo
\* file is left on the local filesystem.
C5_NoTempFileLeft ==
  pc \in {"done", "failed"} => DOMAIN local_files = {}

\* C10: two selected photos with the same derived name both get a manifest
\* entry, and the remote object under that name holds the payload of the
\* later of them.
C10_LaterPayloadWins ==
  pc = "done" =>
    \A i, j \in 1..K :
      ( /\ i < j
        /\ make_file_name(Selected[i]) = make_file_name(Selected[j])
        /\ \A l \in (j + 1)..K : make_file_name(Selected[l]) # make_file_name(Selected[j]) )
      => /\ Len(manifest_json) = K
         /\ manifest_json[i].file_name = make_file_name(Selected[i])
         /\ manifest_json[j].file_name = make_file_name(Selected[i])
         /\ remote[remote_path(make_file_name(Selected[j]))] = Content(downloads[j])

\* C1: an error raised by the download, the destination request or a
\* transfer while the k-th selected photo (k = idx + 1) is processed ends
\* the run there: k downloads and at most k destination requests were made,
\* no transfer went to a later reference, the failed call was not repeated,
\* the manifest file was not written, and nothing happens afterwards.
C1_AbortedState ==
  (pc = "failed" /\ error.at \in {"download", "link", "put1", "put2"}) =>
    /\ ~manifest_exists
    /\ Len(photos_info) = idx
    /\ Len(downloads) = idx + 1
    /\ Len(link_requests) = IF error.at = "download" THEN idx ELSE idx + 1
    /\ \A i \in DOMAIN transfers : transfers[i].href[2] <= idx + 1
    /\ TransfersTo(idx + 1, TRUE) = IF error.at = "put2" THEN 1 ELSE 0
    /\ TransfersTo(idx + 1, FALSE) <= 1

\* C1: every aborted state is as described above, and an aborted run takes
\* no further step (no later download or upload, no retry, no manifest).
C1_AbortsAtOnce ==
  [] C1_AbortedState /\ [][pc = "failed" => UNCHANGED vars]_vars

C1_Witness ==
  /\ pc = "failed"
  /\ error.at = "put2"
  /\ idx = 2
  /\ Len(photos_info) = 2

\* C4: when the destination request for the current photo failed, or came
\* back without a reference, no transfer is sent for that photo, the run
\* is aborted (or about to be, by the put on None) and no manifest exists.
C4_FailFastWithoutReference ==
  ( /\ Len(link_requests) = idx + 1
    /\ link_requests[idx + 1].resp.body # "href" ) =>
      /\ \/ pc = "failed"
         \/ pc = "put1" /\ href = NoHref
      /\ \A i \in DOMAIN transfers : transfers[i].href[2] <= idx
      /\ ~manifest_exists

C4_Witness ==
  /\ pc = "failed"
  /\ error.exc = "MissingSchema"
  /\ idx = 2
  /\ Len(transfers) = 4

\* C6: after an error-free run the manifest file has K entries in rank
\* order, entry i carrying the name derived for photo i and the label of
\* the variant downloaded and uploaded for it; at any time there are no
\* more entries than checked transfers that did not fail.
C6_ManifestMatchesUploads ==
  /\ Len(photos_info) <=
       Cardinality({i \in DOMAIN transfers : transfers[i].checked})
         - (IF pc = "failed" /\ error.at = "put2" THEN 1 ELSE 0)
  /\ pc = "done" =>
       /\ manifest_exists
       /\ Len(manifest_json) = K
       /\ Len(downloads) = K
       /\ \A i \in 1..K :
            /\ manifest_json[i].file_name = make_file_name(Selected[i])
            /\ \E v \in Range(Selected[i].sizes) :
                 /\ v.url = downloads[i]
                 /\ v.type = manifest_json[i].size
                 /\ \E j \in DOMAIN transfers :
                      /\ transfers[j].href = <<remote_path(manifest_json[i].file_name), i>>
                      /\ transfers[j].body = Content(v.url)

C6_Witness ==
  /\ pc = "done"
  /\ K = 5
  /\ \E i, j \in 1..K : manifest_json[i].size # manifest_json[j].size

\* C7: the selection has min(N, 5) records taken from the input, is in
\* non-increasing order of maximal area, and no record left out has a
\* maximal area greater than that of a selected record.
C7_TopFiveByArea ==
  (pc \notin {"start", "rank"} /\ error.at \notin {"start", "rank"}) =>
    LET N == Len(photos.items)
    IN /\ Len(top_photos) = IF N < TopCount THEN N ELSE TopCount
       /\ Selected = top_photos
       /\ \A i \in 1..(Len(top_photos) - 1) :
            MaxArea(top_photos[i]) >= MaxArea(top_photos[i + 1])
       /\ \A x \in Range(top_photos) :
            Occurrences(top_photos, x) <= Occurrences(photos.items, x)
       /\ \A x \in Range(photos.items) :
            Occurrences(photos.items, x) > Occurrences(top_photos, x) =>
              \A y \in Range(top_photos) : MaxArea(x) <= MaxArea(y)

C7_Witness ==
  /\ pc = "loop"
  /\ Len(photos.items) = 6
  /\ Len(top_photos) = 5
  /\ MaxArea(photos.items[1]) < MaxArea(photos.items[6])
  /\ \E x \in Range(photos.items) :
       Occurrences(photos.items, x) > Occurrences(top_photos, x)

\* C8: the variant chosen for the current photo has maximal area among the
\* photo's variants and is the first one in variant order with that area.
C8_FirstMaximalVariant ==
  InLoopBody =>
    LET sizes == Selected[idx + 1].sizes
    IN \E i \in DOMAIN sizes :
         /\ sizes[i] = max_size
         /\ \A j \in DOMAIN sizes : Area(sizes[j]) <= Area(sizes[i])
         /\ \A j \in 1..(i - 1) : Area(sizes[j]) < Area(sizes[i])

C8_Witness ==
  /\ pc = "download"
  /\ LET sizes == Selected[idx + 1].sizes
     IN \E i, j \in DOMAIN sizes :
          /\ 1 < i /\ i < j
          /\ sizes[i] = max_size
          /\ Area(sizes[j]) = Area(sizes[i])
          /\ Area(sizes[1]) < Area(sizes[i])

AbsentBodies == {"no_response", "no_items"}
MalformedBodies == {"not_json", "not_object", "response_not_object", "items_null"}
SuccessAnswer == vk_response.net = "ok" /\ ~raise_for_status(vk_response.status)
NothingTransferred == downloads = <<>> /\ link_requests = <<>> /\ transfers = <<>>

\* C9 as stated: on a success status with an absent or malformed payload
\* get_photos returns the empty list, run() makes no download, destination
\* request or transfer and ends with an empty manifest (a failure can only
\* be the manifest write), and get_photos fails only on a transport
\* failure or a non-success status.
C9_AbsentOrMalformedIsEmpty ==
  /\ (SuccessAnswer /\ vk_response.body \in AbsentBodies \cup MalformedBodies) =>
       /\ photos = [is_none |-> FALSE, items |-> <<>>]
       /\ NothingTransferred
       /\ pc = "failed" => error.at = "save"
       /\ pc = "done" => manifest_exists /\ manifest_json = <<>>
  /\ error.at = "start" => ~SuccessAnswer

\* C9 amended: the empty result is for a payload whose 'response' or 'items'
\* member is absent; a payload that is not JSON, not an object, or whose
\* 'response' is not an object makes get_photos fail, and a null 'items'
\* makes run() fail right after get_photos returned None.
C9_AbsentIsEmpty ==
  /\ (SuccessAnswer /\ vk_response.body \in AbsentBodies) =>
       /\ photos = [is_none |-> FALSE, items |-> <<>>]
       /\ NothingTransferred
       /\ pc = "failed" => error.at = "save"
       /\ pc = "done" => manifest_exists /\ manifest_json = <<>>
  /\ (SuccessAnswer /\ vk_response.body = "items_null") =>
       /\ photos.is_none
       /\ pc \in {"rank", "failed"}
       /\ pc = "failed" => error = [at |-> "rank", exc |-> "TypeError"]
  /\ error.at = "start" =>
       \/ ~SuccessAnswer
       \/ vk_response.body \in {"not_json", "not_object", "response_not_object"}

C9_Witness ==
  /\ pc = "done"
  /\ vk_response.body = "no_items"
  /\ manifest_exists
  /\ manifest_json = <<>>

====
